---- MODULE Spec2Model ----
(***************************************************************************)
(* A model of influx_logging/handler.py: the InfluxHandler record-to-point *)
(* conversion (get_points) and immediate emit, and the                     *)
(* BufferingInfluxHandler constructor, buffer, lock, capacity flush and    *)
(* background flush thread.                                                *)
(*                                                                         *)
(* Threads are the producer threads that hand records to the handler and   *)
(* the one background thread started by BufferingInfluxHandler.__init__.   *)
(* Every Python statement that reads or writes shared state (the buffer,   *)
(* the handler lock) is one step, so that threads interleave between the   *)
(* statements as they do under the interpreter.                            *)
(***************************************************************************)
EXTENDS Integers, Sequences, FiniteSets, TLC

\* ------------------------------------------------------------------ bounds

\* capacity of the BufferingInfluxHandler under check (the default is 64)
Capacity == 3

\* flush_interval of the handler under check, in time units (the default is 5)
FlushInterval == 2

\* number of records the producers emit in one behaviour
MaxRecords == 4

\* number of explicit flush() calls whose write is logged in one behaviour
MaxExplicit == 1

\* longest record name (logger name) converted, in characters
MaxNameLen == 5

\* ----------------------------------------------------------------- threads

Producers == {"p1", "p2"}

\* the background thread: threading.Thread(target=self._flush_thread, ...)
Timer == "BufferingInfluxHandler"

Threads == Producers \cup {Timer}

NoThread == "nobody"

VARIABLES
    buffer,     \* self.buffer: the list of buffered records (record ids)
    lockOwner,  \* the thread that holds self.lock (an RLock), or NoThread
    lockCount,  \* the recursion count of self.lock
    pc,         \* per thread: the statement it is at
    entry,      \* per producer: how it entered ("handle", "emit", "flush")
    kind,       \* per thread: why it is in flush() ("capacity", "timer", "explicit")
    rec,        \* per producer: the id of the record it is emitting (0: none)
    exc,        \* per thread: the exception unwinding through it, or "none"
    outcome,    \* per thread: how its last finished call ended
    elapsed,    \* time units the background thread has slept in this round
    nextId,     \* the id of the next record a producer creates
    writes,     \* the calls made to self.client.write_points, in order
    stored,     \* the points the storage client received, in order
    appended,   \* every record appended to the buffer so far, in append order
    call        \* the get_points call under check (conversion specification)

procVars == <<buffer, lockOwner, lockCount, pc, entry, kind, rec, exc, outcome,
              elapsed, nextId, writes, stored, appended>>

vars == <<buffer, lockOwner, lockCount, pc, entry, kind, rec, exc, outcome,
          elapsed, nextId, writes, stored, appended, call>>

\* ------------------------------------------------- the attributes of a handler

\* The methods InfluxHandler and BufferingInfluxHandler define, with those they
\* inherit from logging.Handler and BufferingHandler and use.
HandlerAttributes ==
    {"__init__", "set_retention_policy", "emit", "get_points", "_flush_thread",
     "flush", "acquire", "release", "handle", "shouldFlush", "buffer", "client"}

\* self.<name>: found, or AttributeError
Lookup(name) == IF name \in HandlerAttributes THEN "found" ELSE "AttributeError"

\* --------------------------------------------------------------- the lock

\* self.acquire() on a lock that excludes nobody
CanAcquireNoExclusion(t) == TRUE

\* self.acquire() on a lock that is not reentrant: free only
CanAcquireNotReentrant(t) == lockOwner = NoThread

\* self.acquire() on the handler's RLock: free, or already held by t
CanAcquire(t) == lockOwner \in {NoThread, t}

AcquiredOwner(t) == t

AcquiredCount == lockCount + 1

\* self.release(): one level; the lock is free when the count reaches 0
ReleasedCountUnlessRaised(e) == IF e = "none" THEN lockCount - 1 ELSE lockCount

ReleasedCount(e) == lockCount - 1

ReleasedOwner(c) == IF c = 0 THEN NoThread ELSE lockOwner

\* ------------------------------------------------------------- the buffer

\* self.buffer.append(record)
AppendRecordOverwrites(buf, r) == <<r>>

AppendRecord(buf, r) == Append(buf, r)

\* BufferingHandler.shouldFlush: len(self.buffer) >= self.capacity
ShouldFlush(buf) == Len(buf) >= Capacity

\* The batch flush() hands to write_points is
\*   itertools.chain(self.get_point(record) for record in self.buffer)
\* a lazy iterable: the client iterates it to encode the points, and the first
\* element evaluates self.get_point, an attribute no class defines (the
\* converter is get_points). The write then raises before any point is sent.
\* Were the attribute defined, chain() of the one generator yields one element
\* per record.
WritePoints(buf) ==
    IF buf = <<>>
    THEN [result |-> "ok", points |-> <<>>]
    ELSE IF Lookup("get_point") = "found"
         THEN [result |-> "ok", points |-> buf]
         ELSE [result |-> "AttributeError", points |-> <<>>]

\* flush: the write made whatever the buffer holds
HasRecordsAlways(buf) == TRUE

\* flush: if len(self.buffer)
HasRecords(buf) == Len(buf) > 0

\* flush: write_points(...) and then self.buffer = [], with the buffer dropped
\* whether or not the write returned
BufferAfterWriteAlwaysDrops(buf, result) == <<>>

\* flush: self.client.write_points(...); self.buffer = []: the assignment is
\* reached only when the write returns, a write that raises leaves the buffer
BufferAfterWrite(buf, result) == IF result = "ok" THEN <<>> ELSE buf

\* ------------------------------------------------------------ strings

\* A logger name and a measurement name are strings, modelled as sequences
\* of characters.
NameChars == {"a", "b", "."}

RECURSIVE SeqsUpTo(_, _)
SeqsUpTo(S, n) ==
    IF n = 0 THEN {<<>>}
    ELSE LET shorter == SeqsUpTo(S, n - 1)
         IN shorter \cup {Append(s, c) : s \in {x \in shorter : Len(x) = n - 1}, c \in S}

Names == SeqsUpTo(NameChars, MaxNameLen)

Root == <<"r", "o", "o", "t">>

\* s.split(sep): the segments between the separators, in order (one more
\* than there are separators, empty segments kept)
RECURSIVE Split(_, _)
Split(s, sep) ==
    IF \A i \in DOMAIN s : s[i] # sep
    THEN <<s>>
    ELSE LET i == CHOOSE k \in DOMAIN s :
                      s[k] = sep /\ \A j \in 1..(k - 1) : s[j] # sep
         IN <<SubSeq(s, 1, i - 1)>> \o Split(SubSeq(s, i + 1, Len(s)), sep)

\* s.replace(old, new) for single characters
Replace(s, old, new) == [i \in DOMAIN s |-> IF s[i] = old THEN new ELSE s[i]]

\* x or default with the default never taken
OrDefaultKeepsEmpty(s, default) == s

\* x or default: the default when the string is empty
OrDefault(s, default) == IF s = <<>> THEN default ELSE s

\* "{rname}:{sub}".format(...): every replacement field of the template is a
\* named one, and a named field is looked up among the keyword arguments;
\* one that is not there raises KeyError
FormatFields == {"rname", "sub"}

FormatNamed(kwargs) ==
    IF FormatFields \subseteq DOMAIN kwargs
    THEN [status |-> "ok", value |-> kwargs["rname"] \o <<":">> \o kwargs["sub"]]
    ELSE [status |-> "KeyError", value |-> <<>>]

\* the keyword arguments of the call at line 151, format(rname, sub): none,
\* both values are passed by position
FormatCallKwargs(rname, sub) == <<>>

\* ------------------------------------------------------------ the record

\* SYSLOG_LEVELS.get(record.levelno, record.levelno)
SyslogLevel(levelno) ==
    CASE levelno = 50 -> 2
      [] levelno = 40 -> 3
      [] levelno = 30 -> 4
      [] levelno = 20 -> 6
      [] levelno = 10 -> 7
      [] OTHER -> levelno

\* logging.getLevelName(record.levelno)
LevelName(levelno) ==
    CASE levelno = 50 -> "CRITICAL"
      [] levelno = 40 -> "ERROR"
      [] levelno = 30 -> "WARNING"
      [] levelno = 20 -> "INFO"
      [] levelno = 10 -> "DEBUG"
      [] OTHER -> "Level"

SKIP_LIST ==
    {"args", "asctime", "created", "exc_info", "exc_text", "filename",
     "funcName", "id", "levelname", "levelno", "lineno", "module",
     "msecs", "message", "msg", "name", "pathname", "process",
     "processName", "relativeCreated", "thread", "threadName"}

\* the attribute names of the records converted whose first character is '_'
UnderscoreNames == {"_secret", "_process_name"}

\* key.startswith('_') taken as never true
StartsWithUnderscoreNever(key) == FALSE

\* key.startswith('_')
StartsWithUnderscore(key) == key \in UnderscoreNames

\* d.update(e) on dicts, as functions from keys
DictUpdate(d, e) ==
    [k \in (DOMAIN d) \cup (DOMAIN e) |-> IF k \in DOMAIN e THEN e[k] ELSE d[k]]

EmptyDict == [k \in {} |-> 0]

\* the attributes the extra= argument of a logging call adds to a record
ExtraChoices ==
    { EmptyDict,
      [k \in {"user"} |-> "u1"],
      [k \in {"user", "_secret", "level"} |-> "x"] }

\* record.__dict__ of a LogRecord made by the logging framework: the
\* attributes LogRecord.__init__ sets, and the extra ones
LogRecordAttributes == (SKIP_LIST \ {"asctime", "id", "message"}) \cup {"stack_info"}

RecordDict(r) ==
    DictUpdate(
        [k \in LogRecordAttributes |->
            CASE k = "name" -> r.name
              [] k = "levelno" -> r.levelno
              [] k = "exc_info" -> r.exc_info
              [] OTHER -> k],
        r.extra)

\* get_full_message(exc_info, message)
GetFullMessage(exc_info, message) ==
    IF exc_info THEN <<"json", "traceback">> ELSE <<"json", message>>

\* add_extra_fields(message_dict, record)
AddExtraFields(message_dict, r) ==
    LET d == RecordDict(r)
        keys == {k \in DOMAIN d : k \notin SKIP_LIST /\ ~StartsWithUnderscore(k)}
    IN DictUpdate(message_dict, [k \in keys |-> d[k]])

\* get_points: the fields dict (lines 103-124)
Fields(r, cfg) ==
    LET base == [k \in {"host", "short_message", "full_message", "level", "level_name"} |->
                    CASE k = "host" -> cfg.localname
                      [] k = "short_message" -> "msg"
                      [] k = "full_message" -> GetFullMessage(r.exc_info, "msg")
                      [] k = "level" -> SyslogLevel(r.levelno)
                      [] k = "level_name" -> LevelName(r.levelno)]
        dbg == [k \in {"file", "line", "function", "pid", "thread_name", "_process_name"} |->
                    CASE k = "file" -> "pathname"
                      [] k = "line" -> "lineno"
                      [] k = "function" -> "funcName"
                      [] k = "pid" -> "process"
                      [] k = "thread_name" -> "threadName"
                      [] k = "_process_name" -> "processName"]
        f1 == IF cfg.debugging_fields THEN DictUpdate(base, dbg) ELSE base
    IN IF cfg.extra_fields THEN AddExtraFields(f1, r) ELSE f1

\* self.indexed_keys
IndexedKeys == {"level", "short_message"}

\* int(record.created * 10**9), record.created in whole seconds
TimeNanos(r) == r.created * 1000000000

\* one point dict of get_points
Point(measurement, r, cfg) ==
    LET fields == Fields(r, cfg)
    IN [measurement |-> measurement,
        tags |-> [k \in (DOMAIN fields) \cap IndexedKeys |-> fields[k]],
        fields |-> fields,
        time |-> TimeNanos(r)]

\* the loop of lines 150-157 over names[1:], from position i with the running
\* name rname and the points made so far
RECURSIVE BackpopLoop(_, _, _, _, _, _)
BackpopLoop(names, i, rname, ret, r, cfg) ==
    IF i > Len(names)
    THEN [status |-> "ok", points |-> ret]
    ELSE LET f == FormatNamed(FormatCallKwargs(rname, names[i]))
         IN IF f.status # "ok"
            THEN [status |-> f.status, points |-> <<>>]
            ELSE BackpopLoop(names, i + 1, f.value,
                             Append(ret, Point(f.value, r, cfg)), r, cfg)

\* if self.measurement: (None and "" are both false)
MeasurementSet(cfg) == cfg.measurement # <<>>

\* get_points with the backpop flag looked at before the override
GetPointsBackpopFirst(r, cfg) ==
    IF cfg.backpop
    THEN LET names == Split(r.name, ".")
             rname == OrDefault(names[1], Root)
         IN BackpopLoop(names, 2, rname, <<Point(rname, r, cfg)>>, r, cfg)
    ELSE IF MeasurementSet(cfg)
    THEN [status |-> "ok", points |-> <<Point(cfg.measurement, r, cfg)>>]
    ELSE [status |-> "ok",
          points |-> <<Point(OrDefault(Replace(r.name, ".", ":"), Root), r, cfg)>>]

\* InfluxHandler.get_points(record): the points, or the exception raised
GetPoints(r, cfg) ==
    IF MeasurementSet(cfg)
    THEN [status |-> "ok", points |-> <<Point(cfg.measurement, r, cfg)>>]
    ELSE IF ~cfg.backpop
    THEN [status |-> "ok",
          points |-> <<Point(OrDefault(Replace(r.name, ".", ":"), Root), r, cfg)>>]
    ELSE LET names == Split(r.name, ".")
             rname == OrDefault(names[1], Root)
         IN BackpopLoop(names, 2, rname, <<Point(rname, r, cfg)>>, r, cfg)

\* ----------------------------------------------------------------- Init

NoCall == [state |-> "none"]

InitHandler ==
    /\ buffer = <<>>
    /\ lockOwner = NoThread
    /\ lockCount = 0
    /\ pc = [t \in Threads |-> IF t = Timer THEN "sleep" ELSE "idle"]
    /\ entry = [t \in Threads |-> "none"]
    /\ kind = [t \in Threads |-> "none"]
    /\ rec = [t \in Threads |-> 0]
    /\ exc = [t \in Threads |-> "none"]
    /\ outcome = [t \in Threads |-> "none"]
    /\ elapsed = 0
    /\ nextId = 1
    /\ writes = <<>>
    /\ stored = <<>>
    /\ appended = <<>>

Init == InitHandler /\ call = NoCall

\* ------------------------------------------------------ producer entries

\* a call that ends as returned whatever was raised in it
EndedSwallowing(e) == "returned"

\* how a call ends for its caller: returned, or the exception it raised
Ended(e) == IF e = "none" THEN "returned" ELSE e

\* logging.Handler.handle(record), the way the logging framework hands a
\* record to the handler: self.acquire(); try: self.emit(record) ...
Handle(p) ==
    /\ pc[p] = "idle"
    /\ nextId <= MaxRecords
    /\ CanAcquire(p)
    /\ lockOwner' = AcquiredOwner(p)
    /\ lockCount' = AcquiredCount
    /\ rec' = [rec EXCEPT ![p] = nextId]
    /\ nextId' = nextId + 1
    /\ entry' = [entry EXCEPT ![p] = "handle"]
    /\ outcome' = [outcome EXCEPT ![p] = "none"]
    /\ pc' = [pc EXCEPT ![p] = "e_append"]
    /\ UNCHANGED <<buffer, kind, exc, elapsed, writes, stored, appended, call>>

\* BufferingInfluxHandler.emit(record) called directly by a producer
EmitDirect(p) ==
    /\ pc[p] = "idle"
    /\ nextId <= MaxRecords
    /\ rec' = [rec EXCEPT ![p] = nextId]
    /\ nextId' = nextId + 1
    /\ entry' = [entry EXCEPT ![p] = "emit"]
    /\ outcome' = [outcome EXCEPT ![p] = "none"]
    /\ pc' = [pc EXCEPT ![p] = "e_append"]
    /\ UNCHANGED <<buffer, lockOwner, lockCount, kind, exc, elapsed, writes, stored, appended, call>>

ExplicitWrites == {i \in DOMAIN writes : writes[i].kind = "explicit"}

\* BufferingInfluxHandler.flush() called directly by a producer
FlushDirect(p) ==
    /\ pc[p] = "idle"
    /\ Cardinality(ExplicitWrites) < MaxExplicit
    /\ entry' = [entry EXCEPT ![p] = "flush"]
    /\ kind' = [kind EXCEPT ![p] = "explicit"]
    /\ outcome' = [outcome EXCEPT ![p] = "none"]
    /\ pc' = [pc EXCEPT ![p] = "f_acquire"]
    /\ UNCHANGED <<buffer, lockOwner, lockCount, rec, exc, elapsed, nextId, writes, stored, appended, call>>

\* ------------------------------------------------------------------ emit

\* BufferingHandler.emit: self.buffer.append(record)
EmitAppend(p) ==
    /\ pc[p] = "e_append"
    /\ buffer' = AppendRecord(buffer, rec[p])
    /\ appended' = Append(appended, rec[p])
    /\ pc' = [pc EXCEPT ![p] = "e_should"]
    /\ UNCHANGED <<lockOwner, lockCount, entry, kind, rec, exc, outcome, elapsed, nextId, writes, stored, call>>

\* emit is over (returned or raised): into handle's finally, or back to the
\* producer that called emit
EmitEnds(p, e) ==
    IF entry[p] = "handle"
    THEN /\ pc' = [pc EXCEPT ![p] = "h_finally"]
         /\ UNCHANGED <<entry, rec, exc, outcome>>
    ELSE /\ pc' = [pc EXCEPT ![p] = "idle"]
         /\ entry' = [entry EXCEPT ![p] = "none"]
         /\ rec' = [rec EXCEPT ![p] = 0]
         /\ outcome' = [outcome EXCEPT ![p] = Ended(e)]
         /\ exc' = [exc EXCEPT ![p] = "none"]

\* BufferingHandler.emit: if self.shouldFlush(record): self.flush()
EmitShouldFlush(p) ==
    /\ pc[p] = "e_should"
    /\ IF ShouldFlush(buffer)
       THEN /\ pc' = [pc EXCEPT ![p] = "f_acquire"]
            /\ kind' = [kind EXCEPT ![p] = "capacity"]
            /\ UNCHANGED <<entry, rec, exc, outcome>>
       ELSE /\ EmitEnds(p, "none")
            /\ kind' = kind
    /\ UNCHANGED <<buffer, lockOwner, lockCount, elapsed, nextId, writes, stored, appended, call>>

\* ----------------------------------------------------------------- flush

\* flush: self.acquire()
FlushAcquire(t) ==
    /\ pc[t] = "f_acquire"
    /\ CanAcquire(t)
    /\ lockOwner' = AcquiredOwner(t)
    /\ lockCount' = AcquiredCount
    /\ pc' = [pc EXCEPT ![t] = "f_len"]
    /\ UNCHANGED <<buffer, entry, kind, rec, exc, outcome, elapsed, nextId, writes, stored, appended, call>>

\* flush: if len(self.buffer):
FlushCheck(t) ==
    /\ pc[t] = "f_len"
    /\ pc' = [pc EXCEPT ![t] = IF HasRecords(buffer) THEN "f_write" ELSE "f_finally"]
    /\ UNCHANGED <<buffer, lockOwner, lockCount, entry, kind, rec, exc, outcome, elapsed, nextId, writes, stored, appended, call>>

\* flush: self.client.write_points(...); self.buffer = []
\* The assignment is reached only when the write returns.
FlushWrite(t) ==
    /\ pc[t] = "f_write"
    /\ LET w == WritePoints(buffer)
       IN /\ writes' = Append(writes, [kind |-> kind[t], over |-> buffer,
                                       result |-> w.result])
          /\ stored' = stored \o w.points
          /\ buffer' = BufferAfterWrite(buffer, w.result)
          /\ exc' = IF w.result = "ok" THEN exc ELSE [exc EXCEPT ![t] = w.result]
    /\ pc' = [pc EXCEPT ![t] = "f_finally"]
    /\ UNCHANGED <<lockOwner, lockCount, entry, kind, rec, outcome, elapsed, nextId, appended, call>>

\* _flush_thread: while True: ... self.flush(): flush() returned and the loop
\* sleeps again, or flush() raised, nothing catches it and the thread ends
TimerNextPc(e) == IF e = "none" THEN "sleep" ELSE "dead"

\* flush: finally: self.release(); then flush() returns or raises into what
\* called it: BufferingHandler.emit (which has nothing left to do and catches
\* nothing), the producer, or the background thread's loop
FlushFinally(t) ==
    /\ pc[t] = "f_finally"
    /\ lockCount' = ReleasedCount(exc[t])
    /\ lockOwner' = ReleasedOwner(lockCount')
    /\ kind' = [kind EXCEPT ![t] = "none"]
    /\ CASE kind[t] = "capacity" ->
              /\ EmitEnds(t, exc[t])
              /\ elapsed' = elapsed
         [] kind[t] = "explicit" ->
              /\ pc' = [pc EXCEPT ![t] = "idle"]
              /\ entry' = [entry EXCEPT ![t] = "none"]
              /\ outcome' = [outcome EXCEPT ![t] = Ended(exc[t])]
              /\ exc' = [exc EXCEPT ![t] = "none"]
              /\ UNCHANGED <<rec, elapsed>>
         [] kind[t] = "timer" ->
              /\ pc' = [pc EXCEPT ![t] = TimerNextPc(exc[t])]
              /\ outcome' = [outcome EXCEPT ![t] = Ended(exc[t])]
              /\ elapsed' = 0
              /\ UNCHANGED <<entry, rec, exc>>
    /\ UNCHANGED <<buffer, nextId, writes, stored, appended, call>>

\* logging.Handler.handle: finally: self.release(), then return or raise
HandleFinally(p) ==
    /\ pc[p] = "h_finally"
    /\ lockCount' = lockCount - 1
    /\ lockOwner' = ReleasedOwner(lockCount')
    /\ pc' = [pc EXCEPT ![p] = "idle"]
    /\ entry' = [entry EXCEPT ![p] = "none"]
    /\ rec' = [rec EXCEPT ![p] = 0]
    /\ outcome' = [outcome EXCEPT ![p] = Ended(exc[p])]
    /\ exc' = [exc EXCEPT ![p] = "none"]
    /\ UNCHANGED <<buffer, kind, elapsed, nextId, writes, stored, appended, call>>

\* ------------------------------------------------- the background thread

\* _flush_thread: time.sleep(self.flush_interval), one time unit passing
Tick ==
    /\ pc[Timer] = "sleep"
    /\ elapsed < FlushInterval
    /\ elapsed' = elapsed + 1
    /\ UNCHANGED <<buffer, lockOwner, lockCount, pc, entry, kind, rec, exc, outcome, nextId, writes, stored, appended, call>>

\* _flush_thread: sleep returns once flush_interval has elapsed
SleepElapsed == elapsed >= FlushInterval

\* _flush_thread: self.flush()
TimerWake ==
    /\ pc[Timer] = "sleep"
    /\ SleepElapsed
    /\ kind' = [kind EXCEPT ![Timer] = "timer"]
    /\ pc' = [pc EXCEPT ![Timer] = "f_acquire"]
    /\ UNCHANGED <<buffer, lockOwner, lockCount, entry, rec, exc, outcome, elapsed, nextId, writes, stored, appended, call>>

\* ------------------------------------------------------------------ Next

\* Records reach the handler the way the logging framework dispatches them,
\* through handle().
Next ==
    \/ \E p \in Producers : Handle(p)
    \/ \E p \in Producers : FlushDirect(p)
    \/ \E p \in Producers : EmitAppend(p)
    \/ \E p \in Producers : EmitShouldFlush(p)
    \/ \E t \in Threads : FlushAcquire(t)
    \/ \E t \in Threads : FlushCheck(t)
    \/ \E t \in Threads : FlushWrite(t)
    \/ \E t \in Threads : FlushFinally(t)
    \/ \E p \in Producers : HandleFinally(p)
    \/ Tick
    \/ TimerWake

Spec == Init /\ [][Next]_vars

\* Producers may also call emit() on the handler themselves, outside handle()
\* and so without the lock.
NextDirect ==
    \/ Next
    \/ \E p \in Producers : EmitDirect(p)

SpecDirect == Init /\ [][NextDirect]_vars

\* ------------------------------------------------------- construction

\* BufferingInfluxHandler.__init__: the state before the constructor has run,
\* for flush_interval None and for a configured interval
InitConstructing ==
    /\ buffer = <<>>
    /\ lockOwner = NoThread
    /\ lockCount = 0
    /\ pc = [t \in Threads |-> IF t = Timer THEN "unstarted" ELSE "idle"]
    /\ entry = [t \in Threads |-> "none"]
    /\ kind = [t \in Threads |-> "none"]
    /\ rec = [t \in Threads |-> 0]
    /\ exc = [t \in Threads |-> "none"]
    /\ outcome = [t \in Threads |-> "none"]
    /\ elapsed = 0
    /\ nextId = 1
    /\ writes = <<>>
    /\ stored = <<>>
    /\ appended = <<>>
    /\ call \in {[state |-> "constructing", flush_interval_is_none |-> b] : b \in BOOLEAN}

\* __init__: self._thread = None if flush_interval is None else threading.Thread(...)
ThreadAttribute(flush_interval_is_none) ==
    IF flush_interval_is_none THEN "None" ELSE "Thread"

\* __init__: ...; self._thread.start(), called whatever self._thread is: on
\* None the attribute lookup raises AttributeError out of the constructor
Construct ==
    /\ call.state = "constructing"
    /\ IF ThreadAttribute(call.flush_interval_is_none) = "None"
       THEN /\ call' = [call EXCEPT !.state = "AttributeError"]
            /\ pc' = pc
       ELSE /\ call' = [call EXCEPT !.state = "constructed"]
            /\ pc' = [pc EXCEPT ![Timer] = "sleep"]
    /\ UNCHANGED <<buffer, lockOwner, lockCount, entry, kind, rec, exc, outcome, elapsed, nextId, writes, stored, appended>>

\* the handler is used only once its constructor has returned it
NextConstruct ==
    \/ Construct
    \/ call.state = "constructed" /\ Next

SpecConstruct == InitConstructing /\ [][NextConstruct]_vars

\* --------------------------------------------- the conversion on its own

\* the records and handler configurations converted
Records ==
    {[name |-> n, levelno |-> l, exc_info |-> x, created |-> 1, extra |-> e] :
        n \in Names, l \in {20, 25}, x \in {FALSE}, e \in ExtraChoices}

Configs ==
    {[measurement |-> m, backpop |-> b, debugging_fields |-> d, extra_fields |-> x,
      localname |-> "None"] :
        m \in {<<>>, <<"m">>}, b \in BOOLEAN, d \in {TRUE}, x \in BOOLEAN}

NoResult == [status |-> "pending", points |-> <<>>]

InitPoints ==
    /\ InitHandler
    /\ call \in {[state |-> "pending", record |-> r, cfg |-> c, result |-> NoResult] :
                    r \in Records, c \in Configs}

\* handler.get_points(record)
GetPointsCall ==
    /\ call.state = "pending"
    /\ call' = [call EXCEPT !.state = "done", !.result = GetPoints(call.record, call.cfg)]
    /\ UNCHANGED procVars

NextPoints == GetPointsCall

SpecPoints == InitPoints /\ [][NextPoints]_vars

\* ------------------------------------------------- the immediate handler

\* InfluxHandler.emit: self.client.write_points(self.get_point(record)).
\* The argument is evaluated first: self.get_point is an attribute no class
\* defines, so the call raises before the client is reached. Were it defined,
\* the one write would carry the points of the record.
ImmediateEmit(r, cfg) ==
    IF Lookup("get_point") # "found"
    THEN [status |-> "AttributeError", written |-> <<>>]
    ELSE LET converted == GetPoints(r, cfg)
         IN IF converted.status # "ok"
            THEN [status |-> converted.status, written |-> <<>>]
            ELSE [status |-> "returned",
                  written |-> <<[kind |-> "immediate", over |-> converted.points,
                                 result |-> "ok"]>>]

\* handler.emit(record) on an InfluxHandler
InfluxHandlerEmit ==
    /\ call.state = "pending"
    /\ LET e == ImmediateEmit(call.record, call.cfg)
       IN /\ call' = [call EXCEPT !.state = "done",
                                  !.result = [status |-> e.status, points |-> <<>>]]
          /\ writes' = writes \o e.written
    /\ UNCHANGED <<buffer, lockOwner, lockCount, pc, entry, kind, rec, exc, outcome, elapsed, nextId, stored, appended>>

NextImmediate == InfluxHandlerEmit

SpecImmediate == InitPoints /\ [][NextImmediate]_vars

\* ================================================================ claims

\* the drain-and-write section of flush(): from the emptiness check, with the
\* lock held, to the release
InFlushSection(t) == pc[t] \in {"f_len", "f_write", "f_finally"}

\* the step in which thread t's flush() calls write_points
WriteStep(t) == pc[t] = "f_write" /\ pc'[t] = "f_finally"

\* no flush other than capacity-triggered ones has written or is running
OnlyCapacityFlushes ==
    /\ \A t \in Threads : kind[t] \in {"none", "capacity"}
    /\ \A i \in DOMAIN writes : writes[i].kind = "capacity"

\* C1: from an empty buffer and with only capacity-triggered flushes, no
\* write is made while fewer than Capacity records have been emitted, and the
\* first capacity-triggered flush makes one write over every buffered record,
\* which succeeds, and leaves the buffer empty.
C1_CapacityFlushWritesAllAndEmpties ==
    [][ OnlyCapacityFlushes =>
          /\ (nextId <= Capacity => writes' = <<>>)
          /\ \A p \in Producers :
                (WriteStep(p) /\ writes = <<>>) =>
                    /\ writes' = <<[kind |-> "capacity", over |-> buffer, result |-> "ok"]>>
                    /\ buffer' = <<>> ]_vars

\* C2: the background thread writes only once flush_interval has elapsed
\* since it started sleeping, and its flush then makes one write over every
\* record in the buffer, which succeeds, and leaves the buffer empty.
C2_TimerFlushAfterIntervalEmpties ==
    [][ WriteStep(Timer) =>
          /\ elapsed >= FlushInterval
          /\ writes' = Append(writes, [kind |-> "timer", over |-> buffer, result |-> "ok"])
          /\ buffer' = <<>> ]_vars

\* the records whose append has happened
AppendedIds == (1..(nextId - 1)) \ {rec[p] : p \in {q \in Producers : pc[q] = "e_append"}}

\* C3: as long as no flush has written and fewer than Capacity records were
\* appended, the buffer holds exactly the appended records, each once,
\* whatever the interleaving of the producers' emits.
C3_ConcurrentAppendsKeepEveryRecordOnce ==
    (writes = <<>> /\ Cardinality(AppendedIds) < Capacity) =>
        /\ Len(buffer) = Cardinality(AppendedIds)
        /\ {buffer[i] : i \in DOMAIN buffer} = AppendedIds

\* C3 witness: two producers are inside emit at once, both appends are done,
\* below capacity, and nothing was flushed
C3_Witness ==
    /\ \A p \in Producers : pc[p] = "e_should" /\ entry[p] = "emit"
    /\ Len(buffer) = 2
    /\ writes = <<>>

\* no record is in the batch of two write_points calls
NoRecordInTwoWrites ==
    \A i, j \in DOMAIN writes :
        i < j => \A a \in DOMAIN writes[i].over, b \in DOMAIN writes[j].over :
                    writes[i].over[a] # writes[j].over[b]

\* C4: a flush whose write fails leaves the buffer empty, and no record is
\* handed to the storage client in more than one write.
C4_FailedWriteStillClearsBuffer ==
    [][ /\ \A t \in Threads :
              (WriteStep(t) /\ writes'[Len(writes')].result # "ok") => buffer' = <<>>
        /\ NoRecordInTwoWrites' ]_vars

\* the position of record r in the append order
AppendPos(r) == CHOOSE k \in DOMAIN appended : appended[k] = r

\* C5: the records are handed to the storage client in append order: within
\* one write, and across writes no record appended earlier comes after one
\* appended later.
C5_WritesInAppendOrder ==
    \A i, j \in DOMAIN writes :
        \A a \in DOMAIN writes[i].over, b \in DOMAIN writes[j].over :
            /\ (i = j /\ a < b) =>
                    AppendPos(writes[i].over[a]) < AppendPos(writes[j].over[b])
            /\ i < j =>
                    AppendPos(writes[i].over[a]) <= AppendPos(writes[j].over[b])

\* C6: at most one thread is inside the drain-and-write section of flush().
C6_OneFlushAtATime == Cardinality({t \in Threads : InFlushSection(t)}) <= 1

\* C6 witness: the background flush is at its write while a producer whose
\* emit reached capacity waits for the lock
C6_Witness ==
    /\ pc[Timer] = "f_write"
    /\ \E p \in Producers : pc[p] = "f_acquire" /\ kind[p] = "capacity"

\* the levels of the lock thread t holds by its position: one inside
\* logging.Handler.handle, one inside the try block of flush()
HeldBy(t) ==
    (IF entry[t] = "handle" /\ pc[t] # "idle" THEN 1 ELSE 0)
    + (IF InFlushSection(t) THEN 1 ELSE 0)

\* C7: every acquire of flush() is undone on exit, whether the buffer was
\* empty or the write raised: the lock is held exactly by the thread that is
\* inside handle or inside flush's try block, as many levels deep, and is
\* free when no thread is.
C7_FlushAlwaysReleasesLock ==
    /\ \A t \in Threads : IF lockOwner = t THEN lockCount = HeldBy(t) ELSE HeldBy(t) = 0
    /\ (lockOwner = NoThread) <=> (lockCount = 0)

\* C7 witness: a flush has raised out of a producer's call, and another
\* producer has taken the lock since
C7_Witness ==
    \E p, q \in Producers :
        /\ p # q
        /\ pc[p] = "idle" /\ outcome[p] = "AttributeError"
        /\ lockOwner = q /\ InFlushSection(q)

\* C8: the buffer never holds more than Capacity records.
C8_BufferBoundedByCapacity == Len(buffer) <= Capacity

\* s1:s2:...:sk for the first k segments
RECURSIVE JoinColon(_, _)
JoinColon(segs, k) ==
    IF k = 1 THEN segs[1] ELSE JoinColon(segs, k - 1) \o <<":">> \o segs[k]

\* the call under check is over, for a record whose name has no empty segment
ConvertedPlainName ==
    /\ call.state = "done"
    /\ \A i \in DOMAIN Split(call.record.name, ".") : Split(call.record.name, ".")[i] # <<>>

\* C9: with no measurement override, a record whose name has the segments
\* s1..sk converts, with backpop, to k points named s1, s1:s2, ..., s1:...:sk
\* that carry the same tags, fields and time, and without backpop to the one
\* point named s1:...:sk.
C9_FanOutPerSegment ==
    (ConvertedPlainName /\ call.cfg.measurement = <<>>) =>
        LET segs == Split(call.record.name, ".")
            pts == call.result.points
        IN /\ call.result.status = "ok"
           /\ IF call.cfg.backpop
              THEN /\ Len(pts) = Len(segs)
                   /\ \A k \in DOMAIN pts :
                        /\ pts[k].measurement = JoinColon(segs, k)
                        /\ pts[k].tags = pts[1].tags
                        /\ pts[k].fields = pts[1].fields
                        /\ pts[k].time = pts[1].time
              ELSE /\ Len(pts) = 1
                   /\ pts[1].measurement = JoinColon(segs, Len(segs))

\* C10: with a measurement override, every record converts to exactly one
\* point, named by the override, whatever its name and the backpop flag.
C10_OverrideGivesOnePoint ==
    (call.state = "done" /\ call.cfg.measurement # <<>>) =>
        /\ call.result.status = "ok"
        /\ Len(call.result.points) = 1
        /\ call.result.points[1].measurement = call.cfg.measurement

\* C10 witness: a record with a name of several segments was converted with
\* backpop on and an override
C10_Witness ==
    /\ call.state = "done"
    /\ call.cfg.measurement # <<>>
    /\ call.cfg.backpop
    /\ Len(Split(call.record.name, ".")) >= 2
    /\ Len(call.result.points) = 1

C12_SchedulerRepeatsAfterEveryFlush ==
    [][(pc[Timer] = "f_finally" /\ pc'[Timer] # "f_finally") => pc'[Timer] = "sleep"]_vars

\* C13: with flush_interval None the constructor completes normally without
\* starting the background scheduler, and afterwards every storage write comes
\* from a capacity-triggered or an explicit flush.
C13_NoneIntervalConstructsWithoutScheduler ==
    (call.flush_interval_is_none /\ call.state # "constructing") =>
        /\ call.state = "constructed"
        /\ pc[Timer] = "unstarted"
        /\ \A i \in DOMAIN writes : writes[i].kind \in {"capacity", "explicit"}

\* C14: every InfluxHandler.emit(record) performs exactly one storage-client
\* write, carrying all the points the record converts to, and buffers nothing.
C14_ImmediateEmitWritesOnce ==
    call.state = "done" =>
        /\ Len(writes) = 1
        /\ buffer = <<>>
        /\ GetPoints(call.record, call.cfg).status = "ok" =>
              writes[1].over = GetPoints(call.record, call.cfg).points

\* the records in a sequence of records
Range(s) == {s[i] : i \in DOMAIN s}

\* the write_points calls that returned and had record r in their batch
ReturnedWritesOf(r) ==
    {i \in DOMAIN writes : writes[i].result = "ok" /\ r \in Range(writes[i].over)}

C16_NoAcquireWhileHolding ==
    \A t \in Threads : pc[t] = "f_acquire" => lockOwner # t

\* C16: the handler lock has to be reentrant, and is: a thread reaches the
\* acquire of flush() holding the lock exactly when its emit, entered through
\* handle(), reached capacity; it then holds one level, the acquire is open
\* to it, and the lock is never held more than two levels deep.
C16_ReentrantAcquireNeverSelfBlocks ==
    /\ lockCount <= 2
    /\ \A t \in Threads :
          (pc[t] = "f_acquire" /\ lockOwner = t) =>
              /\ entry[t] = "handle"
              /\ kind[t] = "capacity"
              /\ lockCount = 1
              /\ CanAcquire(t)

\* C16 witness: a producer is inside the flush its emit triggered, holding
\* the lock at two levels
C16_Witness ==
    \E p \in Producers :
        /\ lockOwner = p
        /\ lockCount = 2
        /\ InFlushSection(p)
        /\ kind[p] = "capacity"

\* C17: a storage-write failure is never swallowed: the exception a write
\* raises inside flush() is the pending exception of the thread that ran the
\* flush, it stays pending until that thread's call ends, and the call (the
\* producer's emit, handle or flush, or the background thread's loop) then
\* ends with that exception.
C17_WriteFailureReachesInvoker ==
    [][ \A t \in Threads :
          /\ (WriteStep(t) /\ writes'[Len(writes')].result # "ok") =>
                exc'[t] = writes'[Len(writes')].result
          /\ exc[t] # "none" =>
                \/ exc'[t] = exc[t] /\ pc'[t] \notin {"idle", "dead"}
                \/ outcome'[t] = exc[t] /\ pc'[t] \in {"idle", "dead"} ]_vars

\* C17 witness: only capacity-triggered flushes have written, a write failed,
\* and a producer's call has ended with the exception of the write
C17_Witness ==
    /\ writes # <<>>
    /\ \A i \in DOMAIN writes : writes[i].kind = "capacity"
    /\ \E p \in Producers :
          /\ pc[p] = "idle"
          /\ outcome[p] = writes[Len(writes)].result
          /\ outcome[p] # "returned"

\* C18: every point a conversion returns has disjoint tag and field key sets.
C18_TagsAndFieldsDisjoint ==
    (call.state = "done" /\ call.result.status = "ok") =>
        \A i \in DOMAIN call.result.points :
            (DOMAIN call.result.points[i].tags) \cap (DOMAIN call.result.points[i].fields) = {}

\* C19: flush() on an empty buffer goes from its emptiness check straight to
\* the release, making no write and leaving the buffer empty, and the release
\* gives back the level of the lock the flush took; write_points is called
\* only over a non-empty buffer.
C19_EmptyFlushIsNoOp ==
    [][ \A t \in Threads :
          /\ (pc[t] = "f_len" /\ buffer = <<>> /\ pc'[t] # pc[t]) =>
                (pc'[t] = "f_finally" /\ writes' = writes /\ buffer' = <<>>)
          /\ WriteStep(t) =>
                (buffer # <<>> /\ writes'[Len(writes')].over # <<>>)
          /\ (pc[t] = "f_finally" /\ pc'[t] # pc[t]) =>
                (lockCount' = lockCount - 1 /\ buffer' = buffer /\ writes' = writes) ]_vars

\* C19 witness: a producer's flush() on the empty buffer has returned, before
\* any record was emitted: nothing was written and the lock is free
C19_Witness ==
    /\ nextId = 1
    /\ buffer = <<>>
    /\ writes = <<>>
    /\ lockOwner = NoThread
    /\ \E p \in Producers : pc[p] = "idle" /\ outcome[p] = "returned"

\* the fields dict before the walk over the record's attributes
FieldsBeforeExtra(r, cfg) == Fields(r, [cfg EXCEPT !.extra_fields = FALSE])

\* the attributes of a record the walk has to add: not in the skip list and
\* not starting with an underscore
Unclassified(r) ==
    {k \in DOMAIN RecordDict(r) : k \notin SKIP_LIST /\ k \notin UnderscoreNames}

====
